---- MODULE Spec2Model ----
(***************************************************************************)
(* A model of courant.py: the name registry kept in redis, the pack-file   *)
(* decoder and the S3 publisher, with every request handler split at its   *)
(* accesses to the shared stores (redis, S3) so that requests served by    *)
(* different workers interleave the way they can in a deployment.          *)
(*                                                                         *)
(* Python strings are sequences of one-character strings.                  *)
(***************************************************************************)
EXTENDS Integers, Sequences, FiniteSets, TLC

(***************************************************************************)
(* Bounds of the model.                                                    *)
(***************************************************************************)
\* the highest value of the clock read by build_timestamp
MaxClock == 1
\* the highest value a counter:<name> key is driven to
MaxUpdates == 2

\* the longest pack stream, in lines, the decoder is given
MaxLines == 5
\* the workers serving requests concurrently
Procs == {"w1", "w2"}

(***************************************************************************)
(* Strings.                                                                *)
(***************************************************************************)
\* Python's None; no Python string of the model equals it
None == <<"None">>

\* str.startswith
StartsWith(s, prefix) ==
    /\ Len(s) >= Len(prefix)
    /\ SubSeq(s, 1, Len(prefix)) = prefix

\* str.lstrip(c)
RECURSIVE LStrip(_, _)
LStrip(s, c) ==
    IF s # <<>> /\ Head(s) = c THEN LStrip(Tail(s), c) ELSE s

\* the index of the first occurrence of c in s from position i on, 0 if none
RECURSIVE Find(_, _, _)
Find(s, c, i) ==
    IF i > Len(s) THEN 0
    ELSE IF s[i] = c THEN i
    ELSE Find(s, c, i + 1)

Digit(d) == <<"0", "1", "2", "3", "4", "5", "6", "7", "8", "9">>[d + 1]

\* str(n) for n >= 0, as redis-py encodes an int value
RECURSIVE IntToStr(_)
IntToStr(n) ==
    IF n < 10 THEN <<Digit(n)>>
    ELSE Append(IntToStr(n \div 10), Digit(n % 10))

DigitValue(c) == CHOOSE d \in 0..9 : Digit(d) = c

\* int(s) for a string of decimal digits
RECURSIVE StrToInt(_)
StrToInt(s) ==
    IF Len(s) = 1 THEN DigitValue(s[1])
    ELSE 10 * StrToInt(SubSeq(s, 1, Len(s) - 1)) + DigitValue(s[Len(s)])

(***************************************************************************)
(* Program constants and the inputs requests are drawn from.               *)
(***************************************************************************)
PACK_MAGIC_PATTERN == <<"<", "[", "{", "~", "#", "-", "-", "-", " ">>

NL == "\n"

\* the shortest name name_available accepts
MinNameLen == 4

\* names: one of three characters, one of four
NameSet == { <<"a", "b", "c">>, <<"n", "o", "t", "e">> }

\* the url argument of newOutlineName: absent, or one of two manifest urls
UrlSet == { <<>>, <<"u", "1">>, <<"u", "2">> }

\* http://<name>.rsshub.org/
LinkOf(name) == <<"h", "t", "t", "p", ":", "/", "/">> \o name
                  \o <<".", "r", "s", "s", "h", "u", "b", ".", "o", "r", "g", "/">>

\* the link argument of pingPackage: absent, without a dot in its host, or
\* the URL of the four-character name
LinkSet == { <<>>, <<"h", "t", "t", "p", ":", "/", "/", "x", "/">>,
             LinkOf(<<"n", "o", "t", "e">>) }

\* the url of the pack file named by a manifest
PackLink == <<"p">>

\* what fetching the manifest can give: a failure status, a document without
\* head/linkHosting, a document with it
ManifestSet == { [status |-> 500, linkHosting |-> None],
                 [status |-> 200, linkHosting |-> None],
                 [status |-> 200, linkHosting |-> PackLink] }

Marker(path) == PACK_MAGIC_PATTERN \o path \o <<NL>>

\* pack files: empty; no marker; two files, one of them introduced twice,
\* after a line that precedes the first marker
BodySet == { <<>>,
             <<"x", NL>>,
             <<"z", NL>> \o Marker(<<"a">>) \o <<"x", NL>>
                 \o Marker(<<"/", "b">>) \o <<"y", NL>>
                 \o Marker(<<"/", "/", "a">>) \o <<"w">> }

\* the lines pack streams are made of: markers for the paths a (spelled in
\* two ways) and b, and two content lines
Chunks == { Marker(<<"a">>), Marker(<<"/", "a">>), Marker(<<"b">>),
            <<"x", NL>>, <<"y", NL>> }

\* the streams of at most n lines
RECURSIVE Streams(_)
Streams(n) ==
    IF n = 0 THEN { <<>> }
    ELSE LET S == Streams(n - 1) IN S \cup { s \o c : s \in S, c \in Chunks }

StreamSet == Streams(MaxLines)

(***************************************************************************)
(* Pure functions of courant.py.                                           *)
(***************************************************************************)
\* the first position from i on holding one of the characters cs, else
\* Len(s) + 1
RECURSIVE FindAny(_, _, _)
FindAny(s, cs, i) ==
    IF i > Len(s) THEN Len(s) + 1
    ELSE IF s[i] \in cs THEN i
    ELSE FindAny(s, cs, i + 1)

\* urlparse.urlparse(link).netloc: what follows "<scheme>://" up to the next
\* "/", "?" or "#"; empty when the link has no "//" there
Netloc(link) ==
    LET colon == Find(link, ":", 1)
        rest  == IF colon > 0 THEN SubSeq(link, colon + 1, Len(link)) ELSE link
    IN  IF StartsWith(rest, <<"/", "/">>)
        THEN SubSeq(rest, 3, FindAny(rest, {"/", "?", "#"}, 3) - 1)
        ELSE <<>>

\* name_from_link: the host's first label; None stands for the ValueError
\* raised by the unpacking when the host holds no "."
name_from_link(link) ==
    LET netloc == Netloc(link)
        dot    == Find(netloc, ".", 1)
    IN  IF dot = 0 THEN None ELSE SubSeq(netloc, 1, dot - 1)

\* resp.iter_lines(): the content cut at each newline, no empty last line
RECURSIVE SplitLines(_, _, _)
SplitLines(s, cur, acc) ==
    IF s = <<>> THEN (IF cur = <<>> THEN acc ELSE Append(acc, cur))
    ELSE IF Head(s) = NL THEN SplitLines(Tail(s), <<>>, Append(acc, cur))
    ELSE SplitLines(Tail(s), Append(cur, Head(s)), acc)

iter_lines(content) == SplitLines(content, <<>>, <<>>)

\* paths[current_path].append(line) on a defaultdict(list)
AppendLine(paths, path, line) ==
    [q \in DOMAIN paths \cup {path} |->
        IF q = path
        THEN (IF path \in DOMAIN paths THEN Append(paths[path], line) ELSE <<line>>)
        ELSE paths[q]]

\* the decoding loop starting a path's content anew at each of its markers
RECURSIVE DecodeLoop_ResetOnMarker(_, _, _)
DecodeLoop_ResetOnMarker(lines, current_path, paths) ==
    IF lines = <<>> THEN paths
    ELSE LET line == Head(lines) IN
         IF StartsWith(line, PACK_MAGIC_PATTERN)
         THEN LET path == LStrip(SubSeq(line, Len(PACK_MAGIC_PATTERN) + 1, Len(line)), "/")
              IN  DecodeLoop_ResetOnMarker(Tail(lines), path,
                      [q \in DOMAIN paths \ {path} |-> paths[q]])
         ELSE IF current_path # None
              THEN DecodeLoop_ResetOnMarker(Tail(lines), current_path,
                                            AppendLine(paths, current_path, line))
              ELSE DecodeLoop_ResetOnMarker(Tail(lines), current_path, paths)

\* the decoding loop of handle_pack_file over the lines left to read
RECURSIVE DecodeLoop(_, _, _)
DecodeLoop(lines, current_path, paths) ==
    IF lines = <<>> THEN paths
    ELSE LET line == Head(lines) IN
         IF StartsWith(line, PACK_MAGIC_PATTERN)
         THEN DecodeLoop(Tail(lines),
                         LStrip(SubSeq(line, Len(PACK_MAGIC_PATTERN) + 1, Len(line)), "/"),
                         paths)
         ELSE IF current_path # None
              THEN DecodeLoop(Tail(lines), current_path,
                              AppendLine(paths, current_path, line))
              ELSE DecodeLoop(Tail(lines), current_path, paths)

\* the decoding loop entered with the empty string as current_path
Decode_EmptyInitialPath(content) == DecodeLoop(iter_lines(content), <<>>, <<>>)

\* the mapping from path to content lines handle_pack_file builds
Decode(content) == DecodeLoop(iter_lines(content), None, <<>>)

\* Decode and name_from_link on the inputs of the model
Decoded == [b \in BodySet \cup StreamSet |-> Decode(b)]
NameOfLink == [l \in LinkSet |-> name_from_link(l)]

\* '\n'.join(content)
RECURSIVE Join(_)
Join(content) ==
    IF content = <<>> THEN <<>>
    ELSE IF Len(content) = 1 THEN content[1]
    ELSE content[1] \o <<NL>> \o Join(Tail(content))

\* the orders in which paths.iteritems() can hand out the keys of a dict: a
\* Python 2 dict iterates in the order of its hash table, which is some
\* order of the keys
IterOrders(keys) ==
    { o \in [1..Cardinality(keys) -> keys] :
        \A i, j \in 1..Cardinality(keys) : i # j => o[i] # o[j] }

\* '%s/%s' % (name, path)
FullPath(name, path) == name \o <<"/">> \o path

\* 'names:%s' % name and 'counter:%s' % name
NamesKey(name) == <<"n", "a", "m", "e", "s", ":">> \o name
CounterKey(name) == <<"c", "o", "u", "n", "t", "e", "r", ":">> \o name

(***************************************************************************)
(* The redis commands the handlers use, on a keyspace r: a function from   *)
(* the keys that exist to their values, a hash being a function from its   *)
(* fields to strings.                                                      *)
(***************************************************************************)
EXISTS(r, key) == key \in DOMAIN r

HGET(r, key, field) ==
    IF key \in DOMAIN r /\ field \in DOMAIN r[key] THEN r[key][field] ELSE None

HGETALL(r, key) == IF key \in DOMAIN r THEN r[key] ELSE <<>>

\* HMSET sets the fields of obj and keeps the hash's other fields
HMSET(r, key, obj) ==
    [k \in DOMAIN r \cup {key} |->
        IF k = key
        THEN (IF key \in DOMAIN r
              THEN [f \in DOMAIN r[key] \cup DOMAIN obj |->
                      IF f \in DOMAIN obj THEN obj[f] ELSE r[key][f]]
              ELSE obj)
        ELSE r[k]]

\* the value INCR returns: a missing key counts as 0
IncrValue(r, key) == IF key \in DOMAIN r THEN StrToInt(r[key]) + 1 ELSE 1

INCR(r, key) ==
    [k \in DOMAIN r \cup {key} |->
        IF k = key THEN IntToStr(IncrValue(r, key)) ELSE r[k]]

(***************************************************************************)
(* State.                                                                  *)
(***************************************************************************)
VARIABLES
    redis,      \* the redis keyspace: names:<name> hashes, counter:<name> strings
    s3,         \* the objects of the bucket dir.rsshub.org, by key name
    now,        \* the clock arrow.utcnow() reads
    pc,         \* where each worker's request handler stands
    local,      \* the local variables of each worker's handler
    resp,       \* the response a handler has returned and Flask has yet to send
    ctClaimed,  \* history: per name, the successful newOutlineName responses
    ctPublished, \* history: per name, the successful pingPackage responses
    before,     \* history: redis, s3 and the clock when the request in service began
    packs       \* the contents the pack host serves at PackLink

vars == <<redis, s3, now, pc, local, resp, ctClaimed, ctPublished, before, packs>>

\* what fetching the pack file can give
PackSet == { [status |-> 500, content |-> <<>>] }
             \cup { [status |-> 200, content |-> b] : b \in packs }

NoLocal == [name |-> None, url |-> None, link |-> None,
            paths |-> <<>>, order |-> <<>>, i |-> 0, obj |-> <<>>]

\* no handler has just returned
NoResp == [op |-> "none", name |-> None, arg |-> None, status |-> 0,
           body |-> <<>>, cmds |-> <<>>]

\* what Flask answers when a handler raises
Raised(op, name, arg) ==
    [op |-> op, name |-> name, arg |-> arg, status |-> 500, body |-> <<>>,
     cmds |-> <<>>]

\* build_response(obj)
build_response(op, name, arg, obj) ==
    [op |-> op, name |-> name, arg |-> arg, status |-> 200, body |-> obj,
     cmds |-> <<>>]

\* response r, returned by a step of a handler that sent redis the commands
\* cmds (history: cmds is no part of what the client receives)
Issued(r, cmds) == [r EXCEPT !.cmds = cmds]

\* build_timestamp(): the clock's reading as a string
build_timestamp == IntToStr(now)

Snapshot == [redis |-> redis, s3 |-> s3, now |-> now]

Init ==
    /\ redis = <<>>
    /\ s3 = <<>>
    /\ now = 0
    /\ pc = [p \in Procs |-> "idle"]
    /\ local = [p \in Procs |-> NoLocal]
    /\ resp = NoResp
    /\ ctClaimed = [n \in NameSet |-> 0]
    /\ ctPublished = [n \in NameSet |-> 0]
    /\ before = Snapshot
    /\ packs = BodySet

\* worker p stands at label, and no response is waiting to be sent
At(p, label) == resp = NoResp /\ pc[p] = label

\* the handler of worker p returns r
Return(p, r) ==
    /\ pc' = [pc EXCEPT ![p] = "idle"]
    /\ local' = [local EXCEPT ![p] = NoLocal]
    /\ resp' = r

\* the handler of worker p goes on at label with locals l
Goto(p, label, l) ==
    /\ pc' = [pc EXCEPT ![p] = label]
    /\ local' = [local EXCEPT ![p] = l]
    /\ resp' = NoResp

(***************************************************************************)
(* /newOutlineName                                                         *)
(***************************************************************************)
NoUrlBody ==
    [flError |-> TRUE,
     errorString |-> <<"Can't assign the name because there is no url parameter provided.">>]

AlreadyClaimedBody(name) ==
    [flError |-> TRUE,
     errorString |-> <<"Can't assign the name '", name,
                       "' to the outline because there already is an outline with that name.">>]

ClaimedBody(name) ==
    [flError |-> FALSE, name |-> name \o <<".", "r", "s", "s", "h", "u", "b", ".", "o", "r", "g">>]

\* new_outline without its redis.exists check
NewOutline_NoExists(p, name, url) ==
    /\ At(p, "idle")
    /\ UNCHANGED <<redis, s3, now, ctClaimed, ctPublished>>
    /\ IF url = <<>>
       THEN Return(p, build_response("new_outline", name, url, NoUrlBody))
       ELSE Goto(p, "new_outline_hmset", [NoLocal EXCEPT !.name = name, !.url = url])

\* new_outline asking redis.exists before it looks at the url
NewOutline_ExistsFirst(p, name, url) ==
    /\ At(p, "idle")
    /\ UNCHANGED <<redis, s3, now, ctClaimed, ctPublished>>
    /\ IF EXISTS(redis, NamesKey(name))
       THEN Return(p, Issued(build_response("new_outline", name, url,
                                            AlreadyClaimedBody(name)), <<"exists">>))
       ELSE IF url = <<>>
       THEN Return(p, Issued(build_response("new_outline", name, url, NoUrlBody),
                             <<"exists">>))
       ELSE Goto(p, "new_outline_hmset", [NoLocal EXCEPT !.name = name, !.url = url])

\* new_outline up to its redis.exists
NewOutline(p, name, url) ==
    /\ At(p, "idle")
    /\ UNCHANGED <<redis, s3, now, ctClaimed, ctPublished>>
    /\ IF url = <<>>
       THEN Return(p, build_response("new_outline", name, url, NoUrlBody))
       ELSE IF EXISTS(redis, NamesKey(name))
       THEN Return(p, Issued(build_response("new_outline", name, url,
                                            AlreadyClaimedBody(name)), <<"exists">>))
       ELSE Goto(p, "new_outline_hmset", [NoLocal EXCEPT !.name = name, !.url = url])

\* new_outline from its redis.hmset on
NewOutlineHmset(p) ==
    /\ At(p, "new_outline_hmset")
    /\ LET name == local[p].name
           obj  == [name |-> name, opmlUrl |-> local[p].url,
                    whenCreated |-> build_timestamp]
       IN  /\ redis' = HMSET(redis, NamesKey(name), obj)
           /\ ctClaimed' = [ctClaimed EXCEPT ![name] = IF @ < 2 THEN @ + 1 ELSE @]
           /\ Return(p, Issued(build_response("new_outline", name, local[p].url,
                                                ClaimedBody(name)), <<"hmset">>))
    /\ UNCHANGED <<s3, now, ctPublished>>

(***************************************************************************)
(* /isNameAvailable                                                        *)
(***************************************************************************)
\* the answer with 'available' set to name_exists
AvailableBody_Inverted(name, name_exists) ==
    [message |-> <<name, IF name_exists THEN ".rsshub.org is not available."
                                        ELSE ".rsshub.org is available.">>,
     available |-> name_exists]

AvailableBody(name, name_exists) ==
    [message |-> <<name, IF name_exists THEN ".rsshub.org is not available."
                                        ELSE ".rsshub.org is available.">>,
     available |-> ~name_exists]

\* name_available asking redis.exists before it validates the name
name_available_ExistsFirst(p, name) ==
    /\ At(p, "idle")
    /\ UNCHANGED <<redis, s3, now, ctClaimed, ctPublished>>
    /\ LET name_exists == EXISTS(redis, NamesKey(name))
       IN  IF name = <<>>
           THEN Return(p, Issued(build_response("name_available", name, None,
                                   [message |-> <<>>]), <<"exists">>))
           ELSE IF Len(name) < MinNameLen
           THEN Return(p, Issued(build_response("name_available", name, None,
                                   [message |-> <<"Name must be 4 or more characters.">>]),
                                 <<"exists">>))
           ELSE Return(p, Issued(build_response("name_available", name, None,
                                   AvailableBody(name, name_exists)), <<"exists">>))

\* name_available: one step, with at most one redis command
name_available(p, name) ==
    /\ At(p, "idle")
    /\ UNCHANGED <<redis, s3, now, ctClaimed, ctPublished>>
    /\ IF name = <<>>
       THEN Return(p, build_response("name_available", name, None, [message |-> <<>>]))
       ELSE IF Len(name) < MinNameLen
       THEN Return(p, build_response("name_available", name, None,
                        [message |-> <<"Name must be 4 or more characters.">>]))
       ELSE Return(p, Issued(build_response("name_available", name, None,
                               AvailableBody(name, EXISTS(redis, NamesKey(name)))),
                             <<"exists">>))

(***************************************************************************)
(* /getUrlFromName                                                         *)
(***************************************************************************)
NotFoundBody(name) ==
    [flError |-> TRUE,
     errorString |-> <<"Can't open the outline named '", name,
                       "' because there is no outline with that name.">>]

\* url_from_name up to its redis.exists
url_from_name(p, name) ==
    /\ At(p, "idle")
    /\ UNCHANGED <<redis, s3, now, ctClaimed, ctPublished>>
    /\ IF ~EXISTS(redis, NamesKey(name))
       THEN Return(p, Issued(build_response("url_from_name", name, None,
                                            NotFoundBody(name)), <<"exists">>))
       ELSE Goto(p, "url_from_name_hget", [NoLocal EXCEPT !.name = name])

\* url_from_name from its redis.hget on; the assert raises on None
UrlFromNameHget(p) ==
    /\ At(p, "url_from_name_hget")
    /\ UNCHANGED <<redis, s3, now, ctClaimed, ctPublished>>
    /\ LET name     == local[p].name
           opml_url == HGET(redis, NamesKey(name), "opmlUrl")
       IN  IF opml_url = None
           THEN Return(p, Issued(Raised("url_from_name", name, None), <<"hget">>))
           ELSE Return(p, Issued(build_response("url_from_name", name, None,
                                   [flError |-> FALSE, url |-> opml_url]), <<"hget">>))

(***************************************************************************)
(* /names/<name>                                                           *)
(***************************************************************************)
\* the record as display_name serializes it: ctUpdates, when there, as an int
Coerced(obj) ==
    [f \in DOMAIN obj |-> IF f = "ctUpdates" THEN StrToInt(obj[f]) ELSE obj[f]]

display_name(p, name) ==
    /\ At(p, "idle")
    /\ UNCHANGED <<redis, s3, now, ctClaimed, ctPublished>>
    /\ Return(p, [op |-> "display_name", name |-> name, arg |-> None, status |-> 200,
                  body |-> Coerced(HGETALL(redis, NamesKey(name))),
                  cmds |-> <<"hgetall">>])

(***************************************************************************)
(* /pingPackage                                                            *)
(***************************************************************************)
\* the publish requests for name that have not reached their redis.incr
Pending(name) ==
    { q \in Procs : pc[q] = "upload" /\ local[q].name = name }

\* 'http://dir.rsshub.org/%s/' % name
UrlRedirect(name) ==
    <<"h", "t", "t", "p", ":", "/", "/", "d", "i", "r", ".",
      "r", "s", "s", "h", "u", "b", ".", "o", "r", "g", "/">> \o name \o <<"/">>

\* handle_pack_file fetching the manifest whether or not redis holds its url
HandlePackFile_NoRecordCheck(p, link) ==
    /\ At(p, "idle")
    /\ UNCHANGED <<redis, s3, now, ctClaimed, ctPublished>>
    /\ LET name     == NameOfLink[link]
           opml_url == HGET(redis, NamesKey(name), "opmlUrl")
           raised   == Return(p, Issued(Raised("ping_package", name, link),
                                        IF name = None THEN <<>> ELSE <<"hget">>))
       IN  IF name = None THEN raised
           ELSE \E m \in ManifestSet :
                  IF m.status # 200 \/ m.linkHosting = None THEN raised
                  ELSE \E pk \in PackSet :
                         IF pk.status # 200 THEN raised
                         ELSE /\ IncrValue(redis, CounterKey(name))
                                   + Cardinality(Pending(name)) <= MaxUpdates
                              /\ \E order \in IterOrders(DOMAIN Decoded[pk.content]) :
                                    Goto(p, "upload",
                                         [NoLocal EXCEPT !.name = name, !.link = link,
                                                         !.paths = Decoded[pk.content],
                                                         !.order = order, !.i = 0])

\* ping_package taking redis.incr before it calls handle_pack_file
HandlePackFile_IncrFirst(p, link) ==
    /\ At(p, "idle")
    /\ UNCHANGED <<s3, now, ctClaimed, ctPublished>>
    /\ redis' = IF NameOfLink[link] = None THEN redis
                ELSE INCR(redis, CounterKey(NameOfLink[link]))
    /\ LET name     == NameOfLink[link]
           opml_url == HGET(redis, NamesKey(name), "opmlUrl")
           raised   == Return(p, Issued(Raised("ping_package", name, link),
                                        IF name = None THEN <<>> ELSE <<"hget">>))
       IN  IF name = None \/ opml_url = None THEN raised
           ELSE \E m \in ManifestSet :
                  IF m.status # 200 \/ m.linkHosting = None THEN raised
                  ELSE \E pk \in PackSet :
                         IF pk.status # 200 THEN raised
                         ELSE /\ IncrValue(redis, CounterKey(name))
                                   + Cardinality(Pending(name)) <= MaxUpdates
                              /\ \E order \in IterOrders(DOMAIN Decoded[pk.content]) :
                                    Goto(p, "upload",
                                         [NoLocal EXCEPT !.name = name, !.link = link,
                                                         !.paths = Decoded[pk.content],
                                                         !.order = order, !.i = 0])

\* ping_package from name_from_link to the end of the decoding loop of
\* handle_pack_file: the manifest url is read from redis (pack_url), the
\* manifest and then the pack file are fetched, and the pack file is decoded;
\* requests.get(None) raises, as does raise_for_status on a failure status
HandlePackFile(p, link) ==
    /\ At(p, "idle")
    /\ UNCHANGED <<redis, s3, now, ctClaimed, ctPublished>>
    /\ LET name     == NameOfLink[link]
           opml_url == HGET(redis, NamesKey(name), "opmlUrl")
           raised   == Return(p, Issued(Raised("ping_package", name, link),
                                        IF name = None THEN <<>> ELSE <<"hget">>))
       IN  IF name = None \/ opml_url = None THEN raised
           ELSE \E m \in ManifestSet :
                  IF m.status # 200 \/ m.linkHosting = None THEN raised
                  ELSE \E pk \in PackSet :
                         IF pk.status # 200 THEN raised
                         ELSE /\ IncrValue(redis, CounterKey(name))
                                   + Cardinality(Pending(name)) <= MaxUpdates
                              /\ \E order \in IterOrders(DOMAIN Decoded[pk.content]) :
                                    Goto(p, "upload",
                                         [NoLocal EXCEPT !.name = name, !.link = link,
                                                         !.paths = Decoded[pk.content],
                                                         !.order = order, !.i = 0])

\* the upload without its policy argument: boto's default, a private object
PutObject_Private(bucket, full_path, content) ==
    [k \in DOMAIN bucket \cup {full_path} |->
        IF k = full_path
        THEN [content |-> content, contentType |-> "text/html", policy |-> "private"]
        ELSE bucket[k]]

\* key.set_metadata and key.set_contents_from_string on Key(s3_bucket, full_path)
PutObject(bucket, full_path, content) ==
    [k \in DOMAIN bucket \cup {full_path} |->
        IF k = full_path
        THEN [content |-> content, contentType |-> "text/html", policy |-> "public-read"]
        ELSE bucket[k]]

\* the upload loop going on to the next segment when an upload raises
Upload_Swallow(p, ok) ==
    /\ At(p, "upload")
    /\ local[p].i < Len(local[p].order)
    /\ UNCHANGED <<redis, now, ctClaimed, ctPublished>>
    /\ LET path == local[p].order[local[p].i + 1]
       IN  IF ok
           THEN /\ s3' = PutObject(s3, FullPath(local[p].name, path),
                                   Join(local[p].paths[path]))
                /\ Goto(p, "upload", [local[p] EXCEPT !.i = @ + 1])
           ELSE /\ s3' = s3
                /\ Goto(p, "upload", [local[p] EXCEPT !.i = @ + 1])

\* one round of the upload loop of handle_pack_file; the upload succeeds (ok)
\* or raises
Upload(p, ok) ==
    /\ At(p, "upload")
    /\ local[p].i < Len(local[p].order)
    /\ UNCHANGED <<redis, now, ctClaimed, ctPublished>>
    /\ LET path == local[p].order[local[p].i + 1]
       IN  IF ok
           THEN /\ s3' = PutObject(s3, FullPath(local[p].name, path),
                                   Join(local[p].paths[path]))
                /\ Goto(p, "upload", [local[p] EXCEPT !.i = @ + 1])
           ELSE /\ s3' = s3
                /\ Return(p, Raised("ping_package", local[p].name, local[p].link))

\* the dict built with the counter's value from before the increment
PingObj_StaleCounter(name, ct) ==
    [whenLastUpdate |-> build_timestamp,
     urlRedirect |-> UrlRedirect(name),
     ctUpdates |-> ct - 1]

\* the dict ping_package builds once handle_pack_file has returned, with the
\* value redis.incr returned
PingObj(name, ct) ==
    [whenLastUpdate |-> build_timestamp,
     urlRedirect |-> UrlRedirect(name),
     ctUpdates |-> ct]

\* ping_package from the return of handle_pack_file through redis.incr
PingIncr(p) ==
    /\ At(p, "upload")
    /\ local[p].i = Len(local[p].order)
    /\ LET key == CounterKey(local[p].name)
       IN  /\ redis' = INCR(redis, key)
           /\ Goto(p, "hmset",
                   [local[p] EXCEPT !.obj = PingObj(local[p].name, IncrValue(redis, key))])
    /\ UNCHANGED <<s3, now, ctClaimed, ctPublished>>

\* the object as redis-py sends it: every value as a string
Encoded(obj) ==
    [f \in DOMAIN obj |-> IF f = "ctUpdates" THEN IntToStr(obj[f]) ELSE obj[f]]

\* ping_package from redis.hmset on
PingHmset(p) ==
    /\ At(p, "hmset")
    /\ redis' = HMSET(redis, NamesKey(local[p].name), Encoded(local[p].obj))
    /\ ctPublished' = [ctPublished EXCEPT ![local[p].name] = @ + 1]
    /\ Return(p, Issued(build_response("ping_package", local[p].name, local[p].link,
                                       [url |-> local[p].link]), <<"hmset">>))
    /\ UNCHANGED <<s3, now, ctClaimed>>

(***************************************************************************)
(* The clock.                                                              *)
(***************************************************************************)
Tick ==
    /\ resp = NoResp
    /\ now < MaxClock
    /\ now' = now + 1
    /\ resp' = NoResp
    /\ UNCHANGED <<redis, s3, pc, local, ctClaimed, ctPublished>>

(***************************************************************************)
(* The response a handler returned goes out to its client.                 *)
(***************************************************************************)
SendResponse ==
    /\ resp # NoResp
    /\ resp' = NoResp
    /\ UNCHANGED <<redis, s3, now, pc, local, ctClaimed, ctPublished>>

(***************************************************************************)
(* Specifications.  Spec: the workers serve requests concurrently.         *)
(* SpecSeq: one request at a time, each begun when none is in service.     *)
(***************************************************************************)
ArgNames == NameSet \cup {<<>>}

Next ==
    \/ \E p \in Procs, name \in NameSet, url \in UrlSet :
          NewOutline(p, name, url) /\ UNCHANGED <<before, packs>>
    \/ \E p \in Procs : NewOutlineHmset(p) /\ UNCHANGED <<before, packs>>
    \/ \E p \in Procs, name \in ArgNames : name_available(p, name) /\ UNCHANGED <<before, packs>>
    \/ \E p \in Procs, name \in NameSet : url_from_name(p, name) /\ UNCHANGED <<before, packs>>
    \/ \E p \in Procs : UrlFromNameHget(p) /\ UNCHANGED <<before, packs>>
    \/ \E p \in Procs, name \in NameSet : display_name(p, name) /\ UNCHANGED <<before, packs>>
    \/ \E p \in Procs, link \in LinkSet : HandlePackFile(p, link) /\ UNCHANGED <<before, packs>>
    \/ \E p \in Procs, ok \in BOOLEAN : Upload(p, ok) /\ UNCHANGED <<before, packs>>
    \/ \E p \in Procs : PingIncr(p) /\ UNCHANGED <<before, packs>>
    \/ \E p \in Procs : PingHmset(p) /\ UNCHANGED <<before, packs>>
    \/ Tick /\ UNCHANGED <<before, packs>>
    \/ SendResponse /\ UNCHANGED <<before, packs>>

Spec == Init /\ [][Next]_vars

Quiet == \A q \in Procs : pc[q] = "idle"

NextSeq ==
    \/ \E p \in Procs, name \in NameSet, url \in UrlSet :
          Quiet /\ NewOutline(p, name, url) /\ before' = Snapshot /\ UNCHANGED packs
    \/ \E p \in Procs : NewOutlineHmset(p) /\ UNCHANGED <<before, packs>>
    \/ \E p \in Procs, name \in ArgNames :
          Quiet /\ name_available(p, name) /\ before' = Snapshot /\ UNCHANGED packs
    \/ \E p \in Procs, name \in NameSet :
          Quiet /\ url_from_name(p, name) /\ before' = Snapshot /\ UNCHANGED packs
    \/ \E p \in Procs : UrlFromNameHget(p) /\ UNCHANGED <<before, packs>>
    \/ \E p \in Procs, name \in NameSet :
          Quiet /\ display_name(p, name) /\ before' = Snapshot /\ UNCHANGED packs
    \/ \E p \in Procs, link \in LinkSet :
          Quiet /\ HandlePackFile(p, link) /\ before' = Snapshot /\ UNCHANGED packs
    \/ \E p \in Procs, ok \in BOOLEAN : Upload(p, ok) /\ UNCHANGED <<before, packs>>
    \/ \E p \in Procs : PingIncr(p) /\ UNCHANGED <<before, packs>>
    \/ \E p \in Procs : PingHmset(p) /\ UNCHANGED <<before, packs>>
    \/ Tick /\ UNCHANGED <<before, packs>>
    \/ SendResponse /\ UNCHANGED <<before, packs>>

SpecSeq == Init /\ [][NextSeq]_vars

(***************************************************************************)
(* SpecPack: publish requests, one at a time, for the name "note" once it  *)
(* has been claimed (the state new_outline leaves when it is the first     *)
(* request served), the pack host serving one stream of StreamSet          *)
(* throughout.                                                             *)
(***************************************************************************)
InitPack ==
    /\ redis = HMSET(<<>>, NamesKey(<<"n", "o", "t", "e">>),
                     [name |-> <<"n", "o", "t", "e">>, opmlUrl |-> <<"u", "1">>,
                      whenCreated |-> IntToStr(0)])
    /\ s3 = <<>>
    /\ now = 0
    /\ pc = [p \in Procs |-> "idle"]
    /\ local = [p \in Procs |-> NoLocal]
    /\ resp = NoResp
    /\ ctClaimed = [n \in NameSet |-> IF n = <<"n", "o", "t", "e">> THEN 1 ELSE 0]
    /\ ctPublished = [n \in NameSet |-> 0]
    /\ before = Snapshot
    /\ packs \in { {b} : b \in StreamSet }

NextPack ==
    \/ \E p \in Procs, link \in LinkSet :
          Quiet /\ HandlePackFile(p, link) /\ before' = Snapshot /\ UNCHANGED packs
    \/ \E p \in Procs, ok \in BOOLEAN : Upload(p, ok) /\ UNCHANGED <<before, packs>>
    \/ \E p \in Procs : PingIncr(p) /\ UNCHANGED <<before, packs>>
    \/ \E p \in Procs : PingHmset(p) /\ UNCHANGED <<before, packs>>
    \/ SendResponse /\ UNCHANGED <<before, packs>>

SpecPack == InitPack /\ [][NextPack]_vars

(***************************************************************************)
(* The pack format, read off a stream's lines without the decoding loop.   *)
(***************************************************************************)
\* the stream the pack host serves under SpecPack
Stream == CHOOSE b \in packs : TRUE

IsMarker(line) == StartsWith(line, PACK_MAGIC_PATTERN)

\* the path a marker line introduces
PathOf(line) == LStrip(SubSeq(line, Len(PACK_MAGIC_PATTERN) + 1, Len(line)), "/")

Min(S) == CHOOSE k \in S : \A j \in S : k <= j
Max(S) == CHOOSE k \in S : \A j \in S : k >= j

\* the positions of the marker lines, and of those that introduce path
MarkerIdx(lines) == { j \in 1..Len(lines) : IsMarker(lines[j]) }
MarkersOf(lines, path) == { j \in MarkerIdx(lines) : PathOf(lines[j]) = path }

\* the paths the stream's markers introduce
MarkerPaths(lines) == { PathOf(lines[j]) : j \in MarkerIdx(lines) }

\* the marker line that line k stands under, 0 when none precedes it
Owner(lines, k) ==
    LET ms == { j \in MarkerIdx(lines) : j < k }
    IN  IF ms = {} THEN 0 ELSE Max(ms)

\* the positions of the content lines that belong to path
ContentIdx(lines, path) ==
    { k \in 1..Len(lines) :
        /\ ~IsMarker(lines[k])
        /\ Owner(lines, k) # 0
        /\ PathOf(lines[Owner(lines, k)]) = path }

\* the members of the set of positions S, ascending
Ascending(S) ==
    [i \in 1..Cardinality(S) |->
        CHOOSE k \in S : Cardinality({ j \in S : j <= k }) = i]

\* the lines at the positions S, in stream order
LinesAt(lines, S) == [i \in 1..Cardinality(S) |-> lines[Ascending(S)[i]]]

\* the content lines between marker line j and the next marker line
Block(lines, j) ==
    SubSeq(lines, j + 1,
           Min({ k \in MarkerIdx(lines) : k > j } \cup { Len(lines) + 1 }) - 1)

\* the blocks of the marker lines at the positions S, one after the other
RECURSIVE ConcatBlocks(_, _)
ConcatBlocks(lines, S) ==
    IF S = {} THEN <<>>
    ELSE Block(lines, Min(S)) \o ConcatBlocks(lines, S \ { Min(S) })

\* the stream's paths in the order of their first marker lines
FirstOrder(lines) ==
    LET firsts == { j \in MarkerIdx(lines) : j = Min(MarkersOf(lines, PathOf(lines[j]))) }
    IN  [i \in 1..Cardinality(firsts) |-> PathOf(lines[Ascending(firsts)[i]])]

\* the content a decoded mapping holds for path, none when it has no entry
ContentOf(paths, path) == IF path \in DOMAIN paths THEN paths[path] ELSE <<>>

\* the workers whose handle_pack_file has decoded the pack file
Decoding == { p \in Procs : pc[p] \in {"upload", "hmset"} }

(***************************************************************************)
(* Reading the registry.                                                   *)
(***************************************************************************)
\* the opmlUrl stored for name in keyspace r, None when there is none
OpmlUrl(r, name) == HGET(r, NamesKey(name), "opmlUrl")

\* the ctUpdates stored in name's record in keyspace r, 0 when absent
CtUpdates(r, name) ==
    IF HGET(r, NamesKey(name), "ctUpdates") = None THEN 0
    ELSE StrToInt(HGET(r, NamesKey(name), "ctUpdates"))

\* the value of counter:<name> in keyspace r, 0 when absent
Counter(r, name) == IncrValue(r, CounterKey(name)) - 1

\* a newOutlineName request for name has just returned r
ClaimReturned(r) == r.op = "new_outline" /\ r.status = 200

(***************************************************************************)
(* C1.  Of the claim requests (new_outline) made for one name, overlapping *)
(* or not, at most one returns success (flError false).                    *)
(***************************************************************************)
C1_AtMostOneClaimSucceeds == \A n \in NameSet : ctClaimed[n] <= 1

(***************************************************************************)
(* C2.  One request at a time: a claim with a url for a name that already  *)
(* has a record returns the already-claimed error, and the record, its     *)
(* opmlUrl included, is as it was.                                         *)
(***************************************************************************)
C2_SecondClaimRejected ==
    (/\ ClaimReturned(resp)
     /\ resp.arg # <<>>
     /\ EXISTS(before.redis, NamesKey(resp.name)))
    => /\ resp.body = AlreadyClaimedBody(resp.name)
       /\ OpmlUrl(redis, resp.name) = OpmlUrl(before.redis, resp.name)
       /\ redis = before.redis

\* a second claim, carrying another url than the stored one, was rejected
C2_Witness ==
    /\ ClaimReturned(resp)
    /\ resp.body = AlreadyClaimedBody(resp.name)
    /\ ctClaimed[resp.name] = 1
    /\ resp.arg # OpmlUrl(redis, resp.name)

(***************************************************************************)
(* C3.  No step changes the opmlUrl of a record that exists.               *)
(***************************************************************************)
C3_OpmlUrlNeverChanges ==
    [][\A n \in NameSet :
         EXISTS(redis, NamesKey(n)) => OpmlUrl(redis', n) = OpmlUrl(redis, n)]_vars

(***************************************************************************)
(* C4.  The ctUpdates stored in a name's record never decreases, also when *)
(* publish requests for the name overlap.                                  *)
(***************************************************************************)
C4_CtUpdatesMonotonic ==
    [][\A n \in NameSet : CtUpdates(redis', n) >= CtUpdates(redis, n)]_vars

(***************************************************************************)
(* C5.  One request at a time: when the k-th successful publish of a name  *)
(* returns, the record's ctUpdates is k and its whenLastUpdate is a time   *)
(* read during that publish; between requests the stored ctUpdates is the  *)
(* number of successful publishes.                                         *)
(***************************************************************************)
\* a pingPackage request has just returned success
Published(r) == r.op = "ping_package" /\ r.status = 200

C5_KthPublishStoresK ==
    /\ \A n \in NameSet : CtUpdates(redis, n) <= ctPublished[n]
    /\ Published(resp) =>
          /\ CtUpdates(redis, resp.name) = ctPublished[resp.name]
          /\ \E t \in before.now..now :
                HGET(redis, NamesKey(resp.name), "whenLastUpdate") = IntToStr(t)
    /\ Quiet => \A n \in NameSet : CtUpdates(redis, n) = ctPublished[n]

\* the second successful publish has returned, later than the first
C5_Witness ==
    /\ Published(resp)
    /\ ctPublished[resp.name] = 2
    /\ CtUpdates(redis, resp.name) = 2
    /\ before.now = 1
    /\ HGET(before.redis, NamesKey(resp.name), "whenLastUpdate") = <<"0">>
    /\ HGET(redis, NamesKey(resp.name), "whenLastUpdate") = <<"1">>

(***************************************************************************)
(* C6.  One request at a time: when a publish run has failed (its handler  *)
(* raised), the redis keyspace, so the name's record and its               *)
(* counter:<name> key, is exactly as it was when the run began.            *)
(***************************************************************************)
PublishFailed(r) == r.op = "ping_package" /\ r.status = 500

C6_FailedPublishLeavesRegistry == PublishFailed(resp) => redis = before.redis

\* a publish of a claimed, once published name failed after an upload
C6_Witness ==
    /\ PublishFailed(resp)
    /\ resp.name \in NameSet
    /\ EXISTS(redis, NamesKey(resp.name))
    /\ Counter(redis, resp.name) = 1
    /\ s3 # before.s3

(***************************************************************************)
(* C7.  One request at a time: every round of the upload loop either puts  *)
(* its segment's object and moves to the next segment, or returns the      *)
(* failure to the caller; when it fails, the bucket is left as it was:     *)
(* the segments uploaded earlier in the run hold their new content and no  *)
(* later segment's object has been written by the run.                     *)
(***************************************************************************)
\* the object stored at full_path in bucket b, None when there is none
Object(b, full_path) == IF full_path \in DOMAIN b THEN b[full_path] ELSE None

\* the object handle_pack_file stores for the j-th segment of worker p
SegmentKey(p, j) == FullPath(local[p].name, local[p].order[j])
SegmentObject(p, j) ==
    [content |-> Join(local[p].paths[local[p].order[j]]),
     contentType |-> "text/html", policy |-> "public-read"]

C7_UploadFailureAborts ==
    [][\A p \in Procs :
         (/\ pc[p] = "upload"
          /\ local[p].i < Len(local[p].order)
          /\ <<pc[p], local[p]>> # <<pc'[p], local'[p]>>)
         => \/ /\ pc'[p] = "upload"
               /\ local'[p].i = local[p].i + 1
               /\ resp' = NoResp
               /\ Object(s3', SegmentKey(p, local[p].i + 1))
                     = SegmentObject(p, local[p].i + 1)
            \/ /\ pc'[p] = "idle"
               /\ PublishFailed(resp')
               /\ s3' = s3
               /\ \A j \in 1..local[p].i :
                     Object(s3', SegmentKey(p, j)) = SegmentObject(p, j)
               /\ \A j \in (local[p].i + 1)..Len(local[p].order) :
                     Object(s3', SegmentKey(p, j)) = Object(before.s3, SegmentKey(p, j))
       ]_vars

\* the second of two uploads has failed: the first segment's object is in
\* the bucket and the second segment's is not
C7_Witness ==
    /\ PublishFailed(resp)
    /\ Cardinality(DOMAIN s3) = 1
    /\ before.s3 = <<>>

(***************************************************************************)
(* C8.  Every record of the registry has a name of 4 or more characters.   *)
(***************************************************************************)
C8_RecordNamesLongEnough ==
    \A n \in NameSet : EXISTS(redis, NamesKey(n)) => Len(n) >= MinNameLen

(***************************************************************************)
(* C9.  display_name answers NotFound for a name without a record, and     *)
(* every stored field for a name with one.                                 *)
(***************************************************************************)
C9_LookupNotFoundOrRecord ==
    resp.op = "display_name" =>
        IF EXISTS(redis, NamesKey(resp.name))
        THEN resp.status = 200 /\ resp.body = Coerced(redis[NamesKey(resp.name)])
        ELSE resp.status = 404 \/ resp.body = NotFoundBody(resp.name)

(***************************************************************************)
(* C10.  Every names:<name> key that exists holds name, opmlUrl and        *)
(* whenCreated, and url_from_name never raises: it answers not-found or    *)
(* the stored opmlUrl.                                                     *)
(***************************************************************************)
C10_NoPartialRecords ==
    /\ \A n \in NameSet :
          EXISTS(redis, NamesKey(n)) =>
              /\ {"name", "opmlUrl", "whenCreated"} \subseteq DOMAIN redis[NamesKey(n)]
              /\ redis[NamesKey(n)].name = n
              /\ OpmlUrl(redis, n) \in UrlSet \ {<<>>}
    /\ resp.op = "url_from_name" =>
          /\ resp.status = 200
          /\ \/ resp.body = NotFoundBody(resp.name)
             \/ resp.body = [flError |-> FALSE, url |-> OpmlUrl(redis, resp.name)]

\* url_from_name has answered the opmlUrl of a name that has been published
C10_Witness ==
    /\ resp.op = "url_from_name"
    /\ resp.status = 200
    /\ ~resp.body.flError
    /\ CtUpdates(redis, resp.name) >= 1

(***************************************************************************)
(* C11.  A name without a record has never been published: it has no       *)
(* counter:<name> key and no object in the bucket, no publish run for it   *)
(* is past pack_url, and every publish request for it has failed; and a    *)
(* record exists only for a name some claim request returned success for.  *)
(***************************************************************************)
\* the objects of bucket b stored under '<name>/'
ObjectsOf(b, name) == { k \in DOMAIN b : StartsWith(k, name \o <<"/">>) }

C11_NoPublishWithoutRecord ==
    \A n \in NameSet :
        /\ EXISTS(redis, NamesKey(n)) => ctClaimed[n] >= 1
        /\ ~EXISTS(redis, NamesKey(n)) =>
              /\ ~EXISTS(redis, CounterKey(n))
              /\ ObjectsOf(s3, n) = {}
              /\ \A p \in Procs : local[p].name = n => pc[p] \notin {"upload", "hmset"}
              /\ (resp.op = "ping_package" /\ resp.name = n) => PublishFailed(resp)

\* a publish request for a name without a record has failed, while the
\* other name has a record
C11_Witness ==
    /\ PublishFailed(resp)
    /\ resp.name \in NameSet
    /\ ~EXISTS(redis, NamesKey(resp.name))
    /\ \E n \in NameSet : EXISTS(redis, NamesKey(n))

(***************************************************************************)
(* C12.  A claim request with an empty url returns the error "no url       *)
(* parameter provided", whether or not the name has a record, having sent  *)
(* redis no command and with redis and the bucket as they were when the    *)
(* request began.                                                          *)
(***************************************************************************)
C12_EmptyUrlRejected ==
    (resp.op = "new_outline" /\ resp.arg = <<>>) =>
        /\ resp.status = 200
        /\ resp.body = NoUrlBody
        /\ resp.cmds = <<>>
        /\ redis = before.redis
        /\ s3 = before.s3

\* the rejected request named a name that has a record
C12_Witness ==
    /\ resp.op = "new_outline"
    /\ resp.arg = <<>>
    /\ resp.body = NoUrlBody
    /\ EXISTS(redis, NamesKey(resp.name))

(***************************************************************************)
(* C13.  isNameAvailable with an empty name, or with a name of fewer than  *)
(* four characters, returns its validation message (the empty message, or  *)
(* "Name must be 4 or more characters.") without sending redis any command *)
(* (no redis.exists), whether or not the name has a record.                *)
(***************************************************************************)
C13_ShortNameNoStoreAccess ==
    (resp.op = "name_available" /\ Len(resp.name) < MinNameLen) =>
        /\ resp.status = 200
        /\ resp.body = IF resp.name = <<>>
                       THEN [message |-> <<>>]
                       ELSE [message |-> <<"Name must be 4 or more characters.">>]
        /\ resp.cmds = <<>>
        /\ redis = before.redis

\* the short name asked about has a record, and the answer is the
\* validation message all the same
C13_Witness ==
    /\ resp.op = "name_available"
    /\ resp.name # <<>>
    /\ Len(resp.name) < MinNameLen
    /\ EXISTS(redis, NamesKey(resp.name))
    /\ resp.cmds = <<>>

(***************************************************************************)
(* C14.  isNameAvailable with a name of four or more characters answers    *)
(* available = true exactly when redis holds no names:<name> record, with  *)
(* the message that says so, and leaves redis and the bucket as they were. *)
(***************************************************************************)
C14_AvailableIffNoRecord ==
    (resp.op = "name_available" /\ Len(resp.name) >= MinNameLen) =>
        /\ resp.status = 200
        /\ resp.body.available = (NamesKey(resp.name) \notin DOMAIN before.redis)
        /\ resp.body.message =
              <<resp.name, IF NamesKey(resp.name) \in DOMAIN before.redis
                           THEN ".rsshub.org is not available."
                           ELSE ".rsshub.org is available.">>
        /\ redis = before.redis
        /\ s3 = before.s3

\* the name asked about has a record and has been published
C14_Witness ==
    /\ resp.op = "name_available"
    /\ Len(resp.name) >= MinNameLen
    /\ resp.body.available = FALSE
    /\ EXISTS(redis, NamesKey(resp.name))
    /\ ctPublished[resp.name] >= 1

(***************************************************************************)
(* C15.  When more than one marker line of the pack stream introduces a    *)
(* path, the content decoded for that path is the content lines that       *)
(* follow each of its markers, marker after marker in stream order: a      *)
(* later marker discards nothing an earlier one collected.                 *)
(***************************************************************************)
C15_RepeatedPathConcatenates ==
    \A p \in Decoding :
        LET lines == iter_lines(Stream)
        IN  \A path \in MarkerPaths(lines) :
                Cardinality(MarkersOf(lines, path)) > 1 =>
                    ContentOf(local[p].paths, path)
                        = ConcatBlocks(lines, MarkersOf(lines, path))

\* a path is introduced twice, each time followed by content, with another
\* path's marker in between
C15_Witness ==
    \E p \in Decoding :
        LET lines == iter_lines(Stream)
        IN  \E i, j, k \in MarkerIdx(lines) :
                /\ i < j /\ j < k
                /\ PathOf(lines[i]) = PathOf(lines[k])
                /\ PathOf(lines[j]) # PathOf(lines[i])
                /\ Block(lines, i) # <<>>
                /\ Block(lines, k) # <<>>
                /\ Len(local[p].paths[PathOf(lines[i])]) = 2

(***************************************************************************)
(* C16.  The lines of the pack stream that precede its first marker line   *)
(* are in no segment: every decoded path is one a marker introduces and    *)
(* its content is the content lines that stand under its markers.  So the  *)
(* empty stream and a stream without marker lines decode, without error,   *)
(* to the empty mapping, and publishing them uploads nothing.              *)
(***************************************************************************)
C16_LinesBeforeFirstMarkerDropped ==
    LET lines == iter_lines(Stream)
    IN  /\ \A p \in Decoding :
              /\ DOMAIN local[p].paths \subseteq MarkerPaths(lines)
              /\ \A path \in DOMAIN local[p].paths :
                    local[p].paths[path] = LinesAt(lines, ContentIdx(lines, path))
              /\ MarkerIdx(lines) = {} =>
                    local[p].paths = <<>> /\ local[p].order = <<>>
        /\ MarkerIdx(lines) = {} => s3 = <<>>

\* a publish of a stream of lines without any marker has returned success
\* and the bucket is empty
C16_Witness ==
    /\ Published(resp)
    /\ iter_lines(Stream) # <<>>
    /\ MarkerIdx(iter_lines(Stream)) = {}
    /\ s3 = <<>>

(***************************************************************************)
(* C17.  Decoding a pack stream and writing the result out again, path by  *)
(* path in the order of the paths' first markers, each as a marker line    *)
(* followed by its content lines, gives a stream equivalent to the one     *)
(* decoded but for the lines before its first marker: the same paths in    *)
(* the same order, each with the same content lines.  In particular every  *)
(* path a marker introduces is a key of the decoded mapping.               *)
(***************************************************************************)
\* the lines of the stream written from a decoded mapping, its paths taken
\* in the given order
RECURSIVE Rebuild(_, _)
Rebuild(paths, order) ==
    IF order = <<>> THEN <<>>
    ELSE <<PACK_MAGIC_PATTERN \o Head(order)>> \o paths[Head(order)]
             \o Rebuild(paths, Tail(order))

\* two streams hold the same paths, first introduced in the same order, with
\* the same content lines
Equivalent(a, b) ==
    /\ FirstOrder(a) = FirstOrder(b)
    /\ \A path \in MarkerPaths(a) :
          LinesAt(a, ContentIdx(a, path)) = LinesAt(b, ContentIdx(b, path))

\* the keys of a decoded mapping in the order of their first markers
DecodedOrder(paths, lines) ==
    LET IsKey(path) == path \in DOMAIN paths
    IN  SelectSeq(FirstOrder(lines), IsKey)

C17_DecodeRebuildRoundTrip ==
    \A p \in Decoding :
        LET lines == iter_lines(Stream)
            paths == local[p].paths
        IN  /\ MarkerPaths(lines) \subseteq DOMAIN paths
            /\ Equivalent(Rebuild(paths, DecodedOrder(paths, lines)), lines)

(***************************************************************************)
(* C18.  The decoded mapping iterates its paths in insertion order: the    *)
(* upload loop takes the segments in the order in which the stream's       *)
(* markers first introduce their paths.                                    *)
(***************************************************************************)
C18_UploadsInFirstMarkerOrder ==
    \A p \in Decoding :
        local[p].order = DecodedOrder(local[p].paths, iter_lines(Stream))

(***************************************************************************)
(* C19.  When a publish of a claimed name returns success, then for every  *)
(* path of the pack stream that has content lines the bucket holds, under  *)
(* '<name>/<path>' (the path without its leading slashes), those lines     *)
(* joined by newlines, with content type text/html and the public-read     *)
(* policy.                                                                 *)
(***************************************************************************)
C19_PublishedObjects ==
    Published(resp) =>
        LET lines == iter_lines(Stream)
        IN  \A path \in MarkerPaths(lines) :
                ContentIdx(lines, path) # {} =>
                    Object(s3, resp.name \o <<"/">> \o path)
                        = [content |-> Join(LinesAt(lines, ContentIdx(lines, path))),
                           contentType |-> "text/html",
                           policy |-> "public-read"]

\* the stream published introduces two files, one by a marker with a leading
\* slash and with two content lines, and the bucket holds note/a and note/b
C19_Witness ==
    /\ Published(resp)
    /\ resp.name = <<"n", "o", "t", "e">>
    /\ \E j \in MarkerIdx(iter_lines(Stream)) :
          iter_lines(Stream)[j] = PACK_MAGIC_PATTERN \o <<"/", "a">>
    /\ DOMAIN s3 = { <<"n", "o", "t", "e", "/", "a">>, <<"n", "o", "t", "e", "/", "b">> }
    /\ \E k \in DOMAIN s3 : Len(s3[k].content) = 3

(***************************************************************************)
(* C20.  In every state in which no publish request for a name stands      *)
(* between its redis.incr and its redis.hmset, the ctUpdates of the name's *)
(* record equals the value of counter:<name>, for every name published at  *)
(* least once, also when publish requests overlap.                         *)
(***************************************************************************)
\* the publish requests for name that have taken redis.incr and not yet
\* reached redis.hmset
Incremented(name) ==
    { p \in Procs : pc[p] = "hmset" /\ local[p].name = name }

C20_CtUpdatesEqualsCounter ==
    \A n \in NameSet :
        (ctPublished[n] >= 1 /\ Incremented(n) = {}) =>
            CtUpdates(redis, n) = Counter(redis, n)

====
